---- MODULE Spec2Model ----
(***************************************************************************)
(* A model of adwscan.py: the Displayed-event monitor, the scoring of a    *)
(* package from the device's answers, and the staged policy with its       *)
(* ledger of handled packages.                                             *)
(*                                                                         *)
(* Texts returned by the device (dumpsys package, appops get) are sets of  *)
(* lines taken from a catalogue; what a substring test or a regular        *)
(* expression finds in a line is tabulated per catalogue line.             *)
(***************************************************************************)
EXTENDS Integers, Sequences, FiniteSets, TLC

(***************************************************************************)
(* Program constants                                                       *)
(***************************************************************************)
DEFAULT_WARN_THRESHOLD == 45
DEFAULT_QUAR_THRESHOLD == 80
DEFAULT_REMOVE_THRESHOLD == 105

BUILTIN_ALLOWLIST_PREFIXES == <<"com.android.", "com.google.android.", "com.google.", "android.">>

BUILTIN_ALLOWLIST_EXACT ==
    {"com.android.systemui", "com.android.settings", "com.google.android.gms",
     "com.google.android.gsf", "com.google.android.packageinstaller",
     "com.android.packageinstaller"}

PERM_SIGNALS ==
    ("SYSTEM_ALERT_WINDOW" :> 35) @@ ("BIND_ACCESSIBILITY_SERVICE" :> 35) @@
    ("PACKAGE_USAGE_STATS" :> 15) @@ ("RECEIVE_BOOT_COMPLETED" :> 12) @@
    ("FOREGROUND_SERVICE" :> 8) @@ ("POST_NOTIFICATIONS" :> 5) @@
    ("WAKE_LOCK" :> 5) @@ ("REQUEST_INSTALL_PACKAGES" :> 20)

\* APPOPS_SIGNALS in the iteration order of the dict
APPOPS_SIGNALS ==
    << [op |-> "SYSTEM_ALERT_WINDOW", pts |-> 25],
       [op |-> "GET_USAGE_STATS", pts |-> 15],
       [op |-> "REQUEST_INSTALL_PACKAGES", pts |-> 10] >>

\* BEHAVIOR_TEXT_SIGNALS in the iteration order of the dict
BEHAVIOR_TEXT_SIGNALS ==
    << [key |-> "android.intent.action.BOOT_COMPLETED", pts |-> 15],
       [key |-> "android.intent.action.USER_PRESENT", pts |-> 20],
       [key |-> "INSTALL_SHORTCUT", pts |-> 10],
       [key |-> "android.intent.action.PACKAGE_ADDED", pts |-> 8],
       [key |-> "android.intent.action.PACKAGE_REPLACED", pts |-> 8] >>

trusted_installers ==
    {"com.android.vending", "com.google.android.packageinstaller",
     "com.android.packageinstaller", "com.sec.android.app.samsungapps",
     "com.huawei.appmarket", "com.xiaomi.market"}

\* the score clip of score_package
SCORE_CAP == 180

\* the window of count_recent used by cmd_monitor and cmd_auto
RECENT_WINDOW == 600

\* maxlen of a package's deque
DEQUE_MAXLEN == 500

\* Python's None
None == "None"

(***************************************************************************)
(* Packages                                                                *)
(***************************************************************************)
AllowPkg == "com.google.android.gms"
PlainPkg == "com.example.app"
NamedPkg == "com.free.cleaner"
Pkgs == {AllowPkg, PlainPkg, NamedPkg}

DATA_PATH == "/data/app/com.pkg-1/base.apk"
SYSTEM_PATH == "/system/priv-app/Pkg/Pkg.apk"
PRODUCT_PATH == "/product/app/Pkg/Pkg.apk"

\* s.startswith(pfx) over the strings of the model
startswith(s, pfx) ==
    \/ s = "com.google.android.gms" /\ pfx \in {"com.google.android.", "com.google."}
    \/ s = DATA_PATH /\ pfx = "/data/app/"
    \/ s = "com.android.launcher.permission.INSTALL_SHORTCUT" /\ pfx = "com.android."
    \/ s \in {"android.permission." \o p : p \in
                {"SYSTEM_ALERT_WINDOW", "BIND_ACCESSIBILITY_SERVICE", "PACKAGE_USAGE_STATS",
                 "RECEIVE_BOOT_COMPLETED", "FOREGROUND_SERVICE", "POST_NOTIFICATIONS",
                 "WAKE_LOCK", "REQUEST_INSTALL_PACKAGES"}} /\ pfx = "android.permission."

\* needle in path, for the three trees score_package looks for
PathContains(s, needle) ==
    \/ s = SYSTEM_PATH /\ needle = "/system/"
    \/ s = PRODUCT_PATH /\ needle = "/product/"

\* SUSPICIOUS_NAME_RE.search(pkg): "cleaner" is one of the keywords
SUSPICIOUS_NAME_RE_search(pkg) == pkg = "com.free.cleaner"

is_allowlisted(pkg) ==
    \/ pkg \in BUILTIN_ALLOWLIST_EXACT
    \/ \E i \in 1..Len(BUILTIN_ALLOWLIST_PREFIXES) :
          startswith(pkg, BUILTIN_ALLOWLIST_PREFIXES[i])

(***************************************************************************)
(* Device texts                                                            *)
(***************************************************************************)
PermLine(p) == "android.permission." \o p

PermLines == {PermLine(p) : p \in DOMAIN PERM_SIGNALS}

A11Y_DECL_LINE == "ServiceInfo: com.pkg/.AdAccessibilityService"
A11Y_BARE_LINE == "filter BIND_ACCESSIBILITY_SERVICE"
SHORTCUT_LINE == "com.android.launcher.permission.INSTALL_SHORTCUT"
MAIN_LINE == "Action: android.intent.action.MAIN"
LAUNCHER_LINE == "Category: android.intent.category.LAUNCHER"
BOOT_LINE == "Action: android.intent.action.BOOT_COMPLETED"
USER_PRESENT_LINE == "Action: android.intent.action.USER_PRESENT"
PACKAGE_ADDED_LINE == "Action: android.intent.action.PACKAGE_ADDED"
PACKAGE_REPLACED_LINE == "Action: android.intent.action.PACKAGE_REPLACED"

OTHER_LINE == "Packages:"

DumpLines ==
    PermLines \cup
    {OTHER_LINE, A11Y_DECL_LINE, A11Y_BARE_LINE, SHORTCUT_LINE, MAIN_LINE, LAUNCHER_LINE,
     BOOT_LINE, USER_PRESENT_LINE, PACKAGE_ADDED_LINE, PACKAGE_REPLACED_LINE}

\* needle in line, for the needles the program looks for (case-sensitive)
LineContains(line, needle) ==
    CASE needle = "BIND_ACCESSIBILITY_SERVICE" ->
            line \in {PermLine("BIND_ACCESSIBILITY_SERVICE"), A11Y_BARE_LINE}
      [] needle = "AccessibilityService" -> line = A11Y_DECL_LINE
      [] needle = "android.intent.action.MAIN" -> line = MAIN_LINE
      [] needle = "android.intent.category.LAUNCHER" -> line = LAUNCHER_LINE
      [] needle = "permission." -> line \in PermLines \cup {SHORTCUT_LINE}
      [] OTHER -> FALSE

\* needle.lower() in line.lower(), for the keys of BEHAVIOR_TEXT_SIGNALS
LineContainsLower(line, key) ==
    CASE key = "android.intent.action.BOOT_COMPLETED" -> line = BOOT_LINE
      [] key = "android.intent.action.USER_PRESENT" -> line = USER_PRESENT_LINE
      [] key = "INSTALL_SHORTCUT" -> line = SHORTCUT_LINE
      [] key = "android.intent.action.PACKAGE_ADDED" -> line = PACKAGE_ADDED_LINE
      [] key = "android.intent.action.PACKAGE_REPLACED" -> line = PACKAGE_REPLACED_LINE
      [] OTHER -> FALSE

TextContains(txt, needle) == \E line \in txt : LineContains(line, needle)

\* the names one scanned line adds to perms: findall of
\* ([A-Z_]{3,}|android\.permission\.[A-Z_]+), the qualified name cut to its last part
LinePermTokens(line) ==
    IF line \in PermLines
      THEN {p \in DOMAIN PERM_SIGNALS : line = PermLine(p)}
      ELSE IF line = SHORTCUT_LINE THEN {"INSTALL_SHORTCUT"} ELSE {}

\* every name parse_requested_permissions can return, in sorted() order
SortedPermNames ==
    << "BIND_ACCESSIBILITY_SERVICE", "FOREGROUND_SERVICE", "INSTALL_SHORTCUT",
       "PACKAGE_USAGE_STATS", "POST_NOTIFICATIONS", "RECEIVE_BOOT_COMPLETED",
       "REQUEST_INSTALL_PACKAGES", "SYSTEM_ALERT_WINDOW", "WAKE_LOCK" >>

\* the subsequence of s whose elements satisfy membership in S
RECURSIVE SelectIn(_, _)
SelectIn(s, S) ==
    IF s = <<>> THEN <<>>
    ELSE IF Head(s) \in S THEN <<Head(s)>> \o SelectIn(Tail(s), S)
                          ELSE SelectIn(Tail(s), S)

Range(s) == {s[i] : i \in 1..Len(s)}

parse_requested_permissions(dumpsys_txt) ==
    LET scanned == {line \in dumpsys_txt :
                       \/ LineContains(line, "permission.")
                       \/ startswith(line, "android.permission.")
                       \/ startswith(line, "com.android.")}
        perms == UNION {LinePermTokens(line) : line \in scanned}
        forced == IF TextContains(dumpsys_txt, "BIND_ACCESSIBILITY_SERVICE")
                    THEN {"BIND_ACCESSIBILITY_SERVICE"} ELSE {}
    IN  SelectIn(SortedPermNames, perms \cup forced)

\* the keys of BEHAVIOR_TEXT_SIGNALS found in the text
parse_behavior_text_signals(dumpsys_txt) ==
    {BEHAVIOR_TEXT_SIGNALS[i].key : i \in
        {j \in 1..Len(BEHAVIOR_TEXT_SIGNALS) :
            \E line \in dumpsys_txt :
                LineContainsLower(line, BEHAVIOR_TEXT_SIGNALS[j].key)}}

\* re.search(rf"\b{op}\b\s*:\s*allow\b", appops_txt, IGNORECASE)
AppopsAllowLine(op) == op \o ": allow"
AppopsDenyLine(op) == op \o ": deny"
AppopsLines ==
    {AppopsAllowLine(APPOPS_SIGNALS[i].op) : i \in 1..Len(APPOPS_SIGNALS)}
    \cup {AppopsDenyLine("SYSTEM_ALERT_WINDOW")}

appops_allowed(appops_txt, op) == AppopsAllowLine(op) \in appops_txt

(***************************************************************************)
(* Scoring                                                                 *)
(***************************************************************************)
RECURSIVE SumSeq(_)
SumSeq(s) == IF s = <<>> THEN 0 ELSE Head(s) + SumSeq(Tail(s))

\* ts_iso: the time formatted to whole seconds (the clock of the model counts seconds)
ts_iso(ts) == ToString(ts)

\* the probe without its dumpsys step
query_launcher_presence_two_state(dev) == IF dev.resolve = "named" THEN "True" ELSE None

\* adb answers of one scoring pass; ok = FALSE is a raised exception (timeout)
\* resolve: "named" (returncode 0 and pkg in the text), "unresolved", "raise"
query_launcher_presence(dev) ==
    IF dev.resolve = "named" THEN "True"
    ELSE IF ~dev.probe_ok THEN None
    ELSE IF /\ TextContains(dev.dump.val, "android.intent.action.MAIN")
            /\ TextContains(dev.dump.val, "android.intent.category.LAUNCHER")
         THEN "False"
         ELSE None

\* whether an exception leaves query_launcher_presence: both of its adb calls sit in a
\* try/except Exception (lines 322-328, 332-340), so the handler of lines 411-412 in
\* score_package never runs
query_launcher_presence_raises(dev) == FALSE

\* the subtraction without its floor
location_penalty_no_floor(score) == score - 10

\* line 450: the location rule's subtraction
location_penalty(score) == IF score - 10 > 0 THEN score - 10 ELSE 0

\* lines 536-537: the upper clip
clip_score(score) == IF score > SCORE_CAP THEN SCORE_CAP ELSE score

\* the declaration bonus given whatever permissions were captured
a11y_declared_any_perms(dumpsys_txt, requested_perms) ==
    /\ dumpsys_txt # {}
    /\ TextContains(dumpsys_txt, "AccessibilityService")

\* line 463: the condition of the AccessibilityService declaration bonus
a11y_declared(dumpsys_txt, requested_perms) ==
    /\ dumpsys_txt # {}
    /\ TextContains(dumpsys_txt, "AccessibilityService")
    /\ "BIND_ACCESSIBILITY_SERVICE" \notin Range(requested_perms)

\* the body of score_package for a package that is not allowlisted, with the running
\* score after the installer rule (s4), after the location rule (s5) and before the clip
score_trace(pkg, recent_count_10m, dev, t) ==
    LET details0 == [pkg |-> pkg, time |-> ts_iso(t),
                     allowlisted |-> is_allowlisted(pkg),
                     recent_count_10m |-> recent_count_10m]
        n == ToString(recent_count_10m)
        \* frequency
        freqPts == IF recent_count_10m >= 8 THEN 30
                   ELSE IF recent_count_10m >= 5 THEN 20
                   ELSE IF recent_count_10m >= 3 THEN 10 ELSE 0
        freqR == IF recent_count_10m >= 8 THEN <<"front-display high (" \o n \o "/10min)">>
                 ELSE IF recent_count_10m >= 5 THEN <<"front-display rather high (" \o n \o "/10min)">>
                 ELSE IF recent_count_10m >= 3 THEN <<"front-display signal (" \o n \o "/10min)">>
                 ELSE <<>>
        namePts == IF SUSPICIOUS_NAME_RE_search(pkg) THEN 5 ELSE 0
        nameR == IF SUSPICIOUS_NAME_RE_search(pkg) THEN <<"package name weak signal">> ELSE <<>>
        \* evidence, each query in its own try/except
        installer == IF dev.installer.ok THEN dev.installer.val ELSE None
        paths == IF dev.paths.ok THEN dev.paths.val ELSE <<>>
        launcher_present == query_launcher_presence(dev)
        dumpsys_txt == IF dev.dump.ok THEN dev.dump.val ELSE {}
        appops_txt == IF dev.appops.ok THEN dev.appops.val ELSE {}
        failR == (IF dev.installer.ok THEN <<>> ELSE <<"installer query failed">>)
              \o (IF dev.paths.ok THEN <<>> ELSE <<"path query failed">>)
              \o (IF query_launcher_presence_raises(dev) THEN <<"launcher probe failed">>
                                                         ELSE <<>>)
              \o (IF dev.dump.ok THEN <<>> ELSE <<"dumpsys failed">>)
              \o (IF dev.appops.ok THEN <<>> ELSE <<"appops query failed">>)
        \* installer
        instPts == IF installer = None THEN 10
                   ELSE IF installer \notin trusted_installers THEN 15 ELSE 0
        instR == IF installer = None THEN <<"installer unknown">>
                 ELSE IF installer \notin trusted_installers
                        THEN <<"non-standard installer: " \o installer>> ELSE <<>>
        s4 == freqPts + namePts + instPts
        \* location
        user_app_like == \E i \in 1..Len(paths) : startswith(paths[i], "/data/app/")
        system_like == \E i \in 1..Len(paths) :
                          \/ PathContains(paths[i], "/system/")
                          \/ PathContains(paths[i], "/product/")
                          \/ PathContains(paths[i], "/vendor/")
        s5 == IF system_like THEN location_penalty(s4) ELSE s4
        locR == IF system_like THEN <<"system area app (careful with removal)">> ELSE <<>>
        \* permissions
        requested_perms == IF dumpsys_txt # {} THEN parse_requested_permissions(dumpsys_txt)
                                               ELSE <<>>
        permHits == SelectIn(requested_perms, DOMAIN PERM_SIGNALS)
        permPts == SumSeq([i \in 1..Len(permHits) |-> PERM_SIGNALS[permHits[i]]])
        permR == [i \in 1..Len(permHits) |->
                    "permission signal: " \o permHits[i] \o " (+"
                       \o ToString(PERM_SIGNALS[permHits[i]]) \o ")"]
        a11yDecl == a11y_declared(dumpsys_txt, requested_perms)
        a11yPts == IF a11yDecl THEN 15 ELSE 0
        a11yR == IF a11yDecl THEN <<"AccessibilityService declaration (+15)">> ELSE <<>>
        \* appops
        opHits == SelectSeq(APPOPS_SIGNALS, LAMBDA e : appops_allowed(appops_txt, e.op))
        appops_found == [i \in 1..Len(opHits) |-> opHits[i].op]
        opPts == SumSeq([i \in 1..Len(opHits) |-> opHits[i].pts])
        opR == [i \in 1..Len(opHits) |->
                  "AppOps allow: " \o opHits[i].op \o " (+" \o ToString(opHits[i].pts) \o ")"]
        \* behaviour text
        behavior_found == IF dumpsys_txt # {} THEN parse_behavior_text_signals(dumpsys_txt)
                                              ELSE {}
        behHits == SelectSeq(BEHAVIOR_TEXT_SIGNALS, LAMBDA e : e.key \in behavior_found)
        behPts == SumSeq([i \in 1..Len(behHits) |-> behHits[i].pts])
        behR == [i \in 1..Len(behHits) |->
                   "behavior signal: " \o behHits[i].key \o " (+" \o ToString(behHits[i].pts) \o ")"]
        \* composite rules
        has_overlay_perm == \/ "SYSTEM_ALERT_WINDOW" \in Range(requested_perms)
                            \/ "SYSTEM_ALERT_WINDOW" \in Range(appops_found)
        has_a11y == \/ "BIND_ACCESSIBILITY_SERVICE" \in Range(requested_perms)
                    \/ (dumpsys_txt # {} /\ TextContains(dumpsys_txt, "AccessibilityService"))
        has_usage == \/ "PACKAGE_USAGE_STATS" \in Range(requested_perms)
                     \/ "GET_USAGE_STATS" \in Range(appops_found)
        boot_rx == "android.intent.action.BOOT_COMPLETED" \in behavior_found
        user_present_rx == "android.intent.action.USER_PRESENT" \in behavior_found
        c1 == IF launcher_present = "False" /\ recent_count_10m >= 3
                THEN [pts |-> 15, r |-> <<"no launcher + front display (HiddenAds)">>]
              ELSE IF launcher_present = None /\ recent_count_10m >= 5
                THEN [pts |-> 8, r |-> <<"launcher unknown + front display high">>]
                ELSE [pts |-> 0, r |-> <<>>]
        c2 == IF has_overlay_perm /\ has_a11y
                THEN [pts |-> 30, r |-> <<"overlay + accessibility (+30)">>]
                ELSE [pts |-> 0, r |-> <<>>]
        c3 == IF has_overlay_perm /\ has_usage
                THEN [pts |-> 15, r |-> <<"overlay + usage stats (+15)">>]
                ELSE [pts |-> 0, r |-> <<>>]
        c4 == IF user_present_rx /\ (launcher_present = "False" \/ launcher_present = None)
                THEN [pts |-> 20, r |-> <<"USER_PRESENT + unusual launcher">>]
                ELSE [pts |-> 0, r |-> <<>>]
        c5 == IF boot_rx /\ has_overlay_perm
                THEN [pts |-> 12, r |-> <<"BOOT_COMPLETED + overlay">>]
                ELSE [pts |-> 0, r |-> <<>>]
        c6 == IF recent_count_10m >= 5 /\ has_overlay_perm /\ installer \notin trusted_installers
                THEN [pts |-> 15, r |-> <<"high frequency + non-standard installer + overlay">>]
                ELSE [pts |-> 0, r |-> <<>>]
        raw == s5 + permPts + a11yPts + opPts + behPts
                  + c1.pts + c2.pts + c3.pts + c4.pts + c5.pts + c6.pts
        score == clip_score(raw)
        reasons == freqR \o nameR \o failR \o instR \o locR \o permR \o a11yR \o opR \o behR
                      \o c1.r \o c2.r \o c3.r \o c4.r \o c5.r \o c6.r
        details == details0
                   @@ [installer |-> installer, paths |-> paths,
                       launcher_present |-> launcher_present,
                       requested_permissions |-> requested_perms,
                       appops_allow_signals |-> appops_found,
                       composite_flags |-> [has_overlay_perm |-> has_overlay_perm,
                                            has_a11y |-> has_a11y,
                                            has_usage |-> has_usage,
                                            boot_receiver |-> boot_rx,
                                            user_present_receiver |-> user_present_rx],
                       score |-> score]
                   @@ (IF user_app_like THEN [user_app_like |-> TRUE] ELSE <<>>)
                   @@ (IF system_like THEN [system_like |-> TRUE] ELSE <<>>)
                   @@ (IF dumpsys_txt # {} THEN [behavior_text_signals |-> behavior_found]
                                           ELSE <<>>)
    IN  [s4 |-> s4, s5 |-> s5, raw |-> raw, score |-> score, reasons |-> reasons,
         details |-> details]

\* the device queried before the allowlist test
score_queries_before_return(pkg, dev) ==
    <<"get_pkg_installer", "get_pkg_paths", "resolve-activity">>
       \o (IF dev.resolve = "named" THEN <<>> ELSE <<"dumpsys_package">>)
       \o <<"dumpsys_package", "appops_get">>

\* the device queries score_package issues, in order: none before the allowlist return
\* (lines 374-375); query_launcher_presence asks dumpsys only when resolve-activity did
\* not name the package
score_queries(pkg, dev) ==
    IF is_allowlisted(pkg) THEN <<>>
    ELSE <<"get_pkg_installer", "get_pkg_paths", "resolve-activity">>
            \o (IF dev.resolve = "named" THEN <<>> ELSE <<"dumpsys_package">>)
            \o <<"dumpsys_package", "appops_get">>

\* the rules applied to every package, the allowlist return left out
score_package_no_short_circuit(pkg, recent_count_10m, dev, t) ==
    LET tr == score_trace(pkg, recent_count_10m, dev, t)
    IN  [pkg |-> pkg, score |-> tr.score, reasons |-> tr.reasons, details |-> tr.details]

score_package(pkg, recent_count_10m, dev, t) ==
    IF is_allowlisted(pkg)
      THEN [pkg |-> pkg, score |-> 0, reasons |-> <<"allowlisted">>,
            details |-> [pkg |-> pkg, time |-> ts_iso(t), allowlisted |-> TRUE,
                         recent_count_10m |-> recent_count_10m]]
      ELSE LET tr == score_trace(pkg, recent_count_10m, dev, t)
           IN  [pkg |-> pkg, score |-> tr.score, reasons |-> tr.reasons,
                details |-> tr.details]

(***************************************************************************)
(* Policy                                                                  *)
(***************************************************************************)
\* the check of line 670 left out
already_actioned_never(actioned, pkg) == FALSE

\* line 670: pkg in actioned
already_actioned(actioned, pkg) == pkg \in DOMAIN actioned

\* line 683: bool(res.details.get("system_like"))
details_system_like(res) ==
    "system_like" \in DOMAIN res.details /\ res.details.system_like

\* the remove tier taken without looking at aggressive_remove
policy_action_always_aggressive(score, system_like, warn_threshold, quar_threshold, remove_threshold, aggressive_remove) ==
    IF score < warn_threshold THEN "none"
    ELSE IF score >= remove_threshold /\ ~system_like THEN "remove"
    ELSE IF score >= quar_threshold THEN "quarantine"
    ELSE "force-stop"

\* lines 678-711: the branch apply_policy takes for an unhandled package
policy_action(score, system_like, warn_threshold, quar_threshold, remove_threshold, aggressive_remove) ==
    IF score < warn_threshold THEN "none"
    ELSE IF score >= remove_threshold /\ aggressive_remove /\ ~system_like THEN "remove"
    ELSE IF score >= quar_threshold THEN "quarantine"
    ELSE "force-stop"

\* lines 684-685: the [SAFETY] notice
safety_notice(score, system_like, warn_threshold, remove_threshold) ==
    score >= warn_threshold /\ system_like /\ score >= remove_threshold

\* cmd_remove, cmd_quarantine, force_stop: the adb commands of an action, in order
action_commands(action) ==
    CASE action = "remove" -> <<"force-stop", "disable-user", "uninstall">>
      [] action = "quarantine" -> <<"force-stop", "disable-user">>
      [] action = "force-stop" -> <<"force-stop">>
      [] OTHER -> <<>>

\* the commands sent whatever dry_run says
issued_commands_ignore_dry_run(action, dry_run, fail) ==
    LET cmds == action_commands(action)
    IN  IF fail \in 1..Len(cmds) THEN SubSeq(cmds, 1, fail) ELSE cmds

\* force_stop, disable_user, uninstall_user0: nothing is sent to adb under dry_run;
\* otherwise the commands are sent in order until one times out (fail = its index,
\* 0 when none does), and the one that timed out was sent
issued_commands(action, dry_run, fail) ==
    LET cmds == action_commands(action)
    IN  IF dry_run THEN <<>>
        ELSE IF fail \in 1..Len(cmds) THEN SubSeq(cmds, 1, fail) ELSE cmds

\* subprocess.TimeoutExpired leaves apply_policy
commands_raise(action, dry_run, fail) ==
    ~dry_run /\ fail \in 1..Len(action_commands(action))

\* lines 692, 704, 715: the recorded action name
action_name(action, dry_run) == IF dry_run THEN action \o "(dry-run)" ELSE action

\* lines 690-695, 702-707, 713-718
ledger_entry(res, action, dry_run, t) ==
    [time |-> ts_iso(t), action |-> action_name(action, dry_run),
     score |-> res.score, reasons |-> res.reasons]

\* apply_policy on the ledger `actioned`: the new ledger, the adb commands sent, the
\* lines printed, whether an exception left the call, whether save_state ran
apply_policy(actioned, res, dry_run, warn_threshold, quar_threshold, remove_threshold, aggressive_remove, fail, t) ==
    LET pkg == res.pkg
        system_like == details_system_like(res)
        action == policy_action(res.score, system_like, warn_threshold, quar_threshold,
                                remove_threshold, aggressive_remove)
        safety == IF safety_notice(res.score, system_like, warn_threshold, remove_threshold)
                    THEN <<"[SAFETY]">> ELSE <<>>
        raised == commands_raise(action, dry_run, fail)
    IN  IF already_actioned(actioned, pkg)
          THEN [actioned |-> actioned, action |-> "skip", calls |-> <<>>,
                log |-> <<"[SKIP]">>, raised |-> FALSE, saved |-> FALSE]
        ELSE IF action = "none"
          THEN [actioned |-> actioned, action |-> "none", calls |-> <<>>,
                log |-> <<"[SCORE]", "[POLICY] record only">>,
                raised |-> FALSE, saved |-> FALSE]
        ELSE IF raised
          THEN [actioned |-> actioned, action |-> action,
                calls |-> issued_commands(action, dry_run, fail),
                log |-> <<"[SCORE]">> \o safety \o <<"[POLICY] " \o action>>,
                raised |-> TRUE, saved |-> FALSE]
          ELSE [actioned |-> (pkg :> ledger_entry(res, action, dry_run, t)) @@ actioned,
                action |-> action,
                calls |-> issued_commands(action, dry_run, fail),
                log |-> <<"[SCORE]">> \o safety \o <<"[POLICY] " \o action>>,
                raised |-> FALSE, saved |-> TRUE]

(***************************************************************************)
(* Bounds and inputs                                                       *)
(***************************************************************************)
\* the clock when the first command starts, in seconds since the epoch
Epoch0 == 1700000000
\* the clock advances in steps of TickStep, at most MaxTicks times
TickStep == 300
MaxTicks == 2
\* Displayed events over all runs
MaxEvents == 2
\* commands run one after the other on the same state directory
MaxRuns == 2
\* the largest recent_count_10m given to score_package directly
MaxRecent == 10
\* direct score_package + apply_policy passes on one state directory
MaxPasses == 2
\* lines of a dumpsys text beyond the named texts
MaxDumpLines == 1

Cmds == {"force-stop", "disable-user", "uninstall"}

\* around the tiers of the frequency rule
RecentCounts == {0, 2, 3, 5, 8, MaxRecent}

InstallerAnswers ==
    {[ok |-> TRUE, val |-> None], [ok |-> TRUE, val |-> "com.android.vending"],
     [ok |-> TRUE, val |-> "com.evil.store"], [ok |-> FALSE, val |-> None]}

PathAnswers ==
    {[ok |-> TRUE, val |-> v] : v \in {<<>>, <<DATA_PATH>>, <<SYSTEM_PATH>>}}
    \cup {[ok |-> FALSE, val |-> <<>>]}

\* the dump of a hidden-icon overlay adware
HiddenAdsDump ==
    {OTHER_LINE, PermLine("SYSTEM_ALERT_WINDOW"), A11Y_DECL_LINE, MAIN_LINE,
     LAUNCHER_LINE, USER_PRESENT_LINE}

NamedDumps == {HiddenAdsDump, DumpLines}

\* the lines the short texts are made of
ShortDumpLines ==
    {OTHER_LINE, PermLine("SYSTEM_ALERT_WINDOW"), PermLine("BIND_ACCESSIBILITY_SERVICE"),
     PermLine("PACKAGE_USAGE_STATS"), PermLine("WAKE_LOCK"), A11Y_DECL_LINE,
     A11Y_BARE_LINE, SHORTCUT_LINE, MAIN_LINE, LAUNCHER_LINE, BOOT_LINE,
     USER_PRESENT_LINE}

DumpTexts ==
    {T \in SUBSET ShortDumpLines : Cardinality(T) <= MaxDumpLines} \cup NamedDumps

DumpAnswers == {[ok |-> TRUE, val |-> T] : T \in DumpTexts} \cup {[ok |-> FALSE, val |-> {}]}

AppopsTexts ==
    {{}, {AppopsAllowLine("SYSTEM_ALERT_WINDOW")}, {AppopsAllowLine("GET_USAGE_STATS")},
     {AppopsDenyLine("SYSTEM_ALERT_WINDOW")}, AppopsLines}

AppopsAnswers ==
    {[ok |-> TRUE, val |-> T] : T \in AppopsTexts} \cup {[ok |-> FALSE, val |-> {}]}

\* resolve-activity and the probe's own dumpsys call
ProbeAnswers ==
    {[resolve |-> "named", probe_ok |-> TRUE], [resolve |-> "unresolved", probe_ok |-> TRUE],
     [resolve |-> "raise", probe_ok |-> TRUE], [resolve |-> "raise", probe_ok |-> FALSE]}

Dev(installer, paths, probe, dump, appops) ==
    [installer |-> installer, paths |-> paths, resolve |-> probe.resolve,
     probe_ok |-> probe.probe_ok, dump |-> dump, appops |-> appops]

DevAnswers ==
    {Dev(i, p, l, d, a) : i \in InstallerAnswers, p \in PathAnswers, l \in ProbeAnswers,
                          d \in DumpAnswers, a \in AppopsAnswers}

Ok(v) == [ok |-> TRUE, val |-> v]
Failed(v) == [ok |-> FALSE, val |-> v]
Named == [resolve |-> "named", probe_ok |-> TRUE]
Unresolved == [resolve |-> "unresolved", probe_ok |-> TRUE]

\* what the device answers about a package met in the loop
CleanDev == Dev(Ok("com.android.vending"), Ok(<<DATA_PATH>>), Named, Ok({OTHER_LINE}), Ok({}))
OverlayDev ==
    Dev(Ok("com.evil.store"), Ok(<<DATA_PATH>>), Named,
        Ok({PermLine("SYSTEM_ALERT_WINDOW")}), Ok({}))
OverlayUsageDev ==
    Dev(Ok("com.evil.store"), Ok(<<DATA_PATH>>), Named,
        Ok({PermLine("SYSTEM_ALERT_WINDOW"), PermLine("PACKAGE_USAGE_STATS")}), Ok({}))
HiddenAdsDev == Dev(Ok(None), Ok(<<DATA_PATH>>), Unresolved, Ok(HiddenAdsDump), Ok({}))
SystemHiddenAdsDev == Dev(Ok(None), Ok(<<SYSTEM_PATH>>), Unresolved, Ok(HiddenAdsDump), Ok({}))
LoopDevAnswers == {CleanDev, HiddenAdsDev, SystemHiddenAdsDev}

\* --warn-threshold, --quarantine-threshold, --remove-threshold: any integers
Config(d, a, w, q, r, m, c) ==
    [dry_run |-> d, aggressive_remove |-> a, warn_threshold |-> w,
     quar_threshold |-> q, remove_threshold |-> r,
     min_count_for_inspect |-> m, cool_down_sec |-> c]

\* a cooldown longer than the clock's reading
LongCoolDown == 2000000000
\* a quarantine threshold above the remove threshold
HighQuarThreshold == 140

\* the command lines tried
Configs ==
    {Config(TRUE, FALSE, DEFAULT_WARN_THRESHOLD, DEFAULT_QUAR_THRESHOLD,
            DEFAULT_REMOVE_THRESHOLD, 1, 600),
     Config(FALSE, FALSE, DEFAULT_WARN_THRESHOLD, DEFAULT_QUAR_THRESHOLD,
            DEFAULT_REMOVE_THRESHOLD, 2, 600),
     Config(FALSE, TRUE, DEFAULT_WARN_THRESHOLD, DEFAULT_QUAR_THRESHOLD,
            DEFAULT_REMOVE_THRESHOLD, 1, 600),
     Config(FALSE, TRUE, DEFAULT_WARN_THRESHOLD, HighQuarThreshold,
            DEFAULT_REMOVE_THRESHOLD, 1, 600),
     Config(FALSE, FALSE, 0, DEFAULT_QUAR_THRESHOLD, DEFAULT_REMOVE_THRESHOLD, 1, 0),
     Config(TRUE, TRUE, DEFAULT_WARN_THRESHOLD, DEFAULT_QUAR_THRESHOLD,
            DEFAULT_REMOVE_THRESHOLD, 1, LongCoolDown)}

DefaultConfig ==
    [dry_run |-> TRUE, aggressive_remove |-> FALSE,
     warn_threshold |-> DEFAULT_WARN_THRESHOLD, quar_threshold |-> DEFAULT_QUAR_THRESHOLD,
     remove_threshold |-> DEFAULT_REMOVE_THRESHOLD,
     min_count_for_inspect |-> 3, cool_down_sec |-> 600]

(***************************************************************************)
(* Stream lines and the activity window                                    *)
(***************************************************************************)
DisplayedLine(pkg) == "I ActivityTaskManager: Displayed " \o pkg \o "/.MainActivity: +350ms"
OtherStreamLine == "I ActivityManager: Start proc 4242:com.example.app/u0a123"
LoopPkgs == {AllowPkg, PlainPkg}
StreamLines == {DisplayedLine(p) : p \in LoopPkgs} \cup {OtherStreamLine}

\* what `adb logcat` prints while no device is connected
WaitingLine == "- waiting for device -"

NoEvent == [ts |-> 0, pkg |-> "", activity |-> "", raw |-> ""]

\* device_state(): (stdout or stderr).strip() of `adb get-state`; "device" for a usable
\* device, the other answers for a missing, offline or unauthorized one
DeviceStates ==
    {"device", "offline", "error: no devices/emulators found",
     "error: device unauthorized."}

UsableDevice(dstate) == dstate = "device"

\* "device" in state, over the answers of the model
StateContainsDevice(dstate) ==
    dstate \in {"device", "error: no devices/emulators found", "error: device offline",
                "error: device unauthorized."}

\* ensure_device raises RuntimeError
ensure_device_raises(dstate) == ~StateContainsDevice(dstate)

\* the lines the stream can deliver: Displayed lines need a connected device
stream_lines(dstate) ==
    IF UsableDevice(dstate) THEN StreamLines ELSE {WaitingLine}

\* the generator's finally left out
stream_finally_no_kill(p) == p

\* stream_logcat's finally: proc.kill(), run when the loop ends, when an exception
\* passes through the generator and when the suspended generator is closed
stream_finally(p) == IF p = "running" THEN "killed" ELSE p

\* every exception mapped to status 1
exit_status_always_1(cause) == IF cause = "done" THEN 0 ELSE 1

\* main's exit_code: 130 for KeyboardInterrupt, 1 for RuntimeError, TimeoutExpired and
\* FileNotFoundError, 0 when the command returns
exit_status(cause) ==
    CASE cause = "interrupt" -> 130
      [] cause = "error" -> 1
      [] OTHER -> 0

\* main's finally: adb.kill_server(), its failure reported as a warning
main_finally(kill_server_ok) ==
    IF kill_server_ok THEN <<"[INFO] adb server stopped">>
                      ELSE <<"[WARN] adb server stop failed">>

\* DISPLAYED_RE.search(line); the event is stamped with now_ts()
parse_displayed_line(line, t) ==
    IF \E p \in Pkgs : line = DisplayedLine(p)
      THEN [ts |-> t, pkg |-> CHOOSE p \in Pkgs : line = DisplayedLine(p),
            activity |-> ".MainActivity", raw |-> line]
      ELSE NoEvent

\* dict.get(k, d)
Get(f, k, d) == IF k \in DOMAIN f THEN f[k] ELSE d

\* the event put at the left end of the deque
deque_append_left(events, evt) ==
    LET dq == Get(events, evt.pkg, <<>>)
        dq2 == IF Len(dq) >= DEQUE_MAXLEN THEN <<evt>> \o SubSeq(dq, 1, Len(dq) - 1)
                                          ELSE <<evt>> \o dq
    IN  (evt.pkg :> dq2) @@ events

\* append on a deque without maxlen
deque_append_unbounded(events, evt) ==
    (evt.pkg :> Append(Get(events, evt.pkg, <<>>), evt)) @@ events

\* events_by_pkg[evt.pkg].append(evt) on a deque(maxlen=500)
deque_append(events, evt) ==
    LET dq == Get(events, evt.pkg, <<>>)
        dq2 == IF Len(dq) >= DEQUE_MAXLEN THEN Append(Tail(dq), evt) ELSE Append(dq, evt)
    IN  (evt.pkg :> dq2) @@ events

\* the events at least `seconds` old counted instead
count_recent_older(events, pkg, seconds, t) ==
    LET dq == Get(events, pkg, <<>>)
    IN  Cardinality({i \in 1..Len(dq) : (t - dq[i].ts) >= seconds})

\* the values of `seconds` queried
QueryWindows == {0, TickStep, RECENT_WINDOW}

count_recent(events, pkg, seconds, t) ==
    LET dq == Get(events, pkg, <<>>)
    IN  Cardinality({i \in 1..Len(dq) : (t - dq[i].ts) <= seconds})

\* append_event_log: one record per event
event_record(evt) ==
    [ts |-> evt.ts, time |-> ts_iso(evt.ts), pkg |-> evt.pkg, activity |-> evt.activity,
     raw |-> evt.raw]

\* the log file opened for writing instead of appending
append_event_log_truncating(log, evt) == <<event_record(evt)>>

\* append_event_log: the record written at the end of events.ndjson, opened with "a"
append_event_log(log, evt) == Append(log, event_record(evt))

\* line 753: the cooldown test of cmd_auto
in_cooldown(t, evals, pkg, cool_down_sec) == (t - Get(evals, pkg, 0)) < cool_down_sec

\* lines 746-754: whether cmd_auto goes on to score the event's package
auto_evaluates(pkg, recent, t, evals, c) ==
    /\ ~is_allowlisted(pkg)
    /\ ~(recent < c.min_count_for_inspect)
    /\ ~in_cooldown(t, evals, pkg, c.cool_down_sec)

(***************************************************************************)
(* State                                                                   *)
(***************************************************************************)
VARIABLES
    pc,             \* "stopped", "auto", "monitor", "scoring", "scored"
    cfg,            \* the arguments of the running command or of the last direct pass
    now,            \* now_ts()
    events_by_pkg,  \* AdwScan.events_by_pkg
    state,          \* AdwScan.state: actioned (the ledger) and last_seen
    disk,           \* state.json
    events_log,     \* events.ndjson: the records appended since the initial state
    last_eval,      \* last_eval of cmd_auto
    adb_log,        \* how often each remediation command was sent for each package
    out,            \* what the last handler did
    inp,            \* the arguments of the last score_package call
    res,            \* the last ScoreResult
    exit_code,      \* main's exit code
    runs,           \* commands started so far
    proc,           \* the logcat process of stream_logcat: "none", "running", "killed"
    device,         \* what `adb get-state` answers
    kill_server_ok  \* whether `adb kill-server` succeeds in main's finally

vars == <<pc, cfg, now, events_by_pkg, state, disk, events_log, last_eval, adb_log, out,
          inp, res, exit_code, runs, proc, device, kill_server_ok>>

NoRes == [pkg |-> "", score |-> 0, reasons |-> <<>>, details |-> <<>>]
NoInp == [pkg |-> "", recent |-> 0, dev |-> CleanDev]
NoOut == [op |-> "", pkg |-> "", evaluated |-> FALSE, action |-> "", calls |-> <<>>,
          log |-> <<>>, raised |-> FALSE, queries |-> <<>>]
EmptyState == [actioned |-> <<>>, last_seen |-> <<>>]

\* the commands of `calls` added to the device-side record
adb_sent(log, pkg, calls) ==
    IF calls = <<>> THEN log
    ELSE [log EXCEPT ![pkg] = [c \in Cmds |->
             @[c] + Cardinality({i \in 1..Len(calls) : calls[i] = c})]]

Init ==
    /\ pc = "stopped"
    /\ cfg = DefaultConfig
    /\ now = Epoch0
    /\ events_by_pkg = <<>>
    /\ state = EmptyState
    /\ disk = EmptyState
    /\ events_log = <<>>
    /\ last_eval = <<>>
    /\ adb_log = [p \in Pkgs |-> [c \in Cmds |-> 0]]
    /\ out = NoOut
    /\ inp = NoInp
    /\ res = NoRes
    /\ exit_code = 0
    /\ runs = 0
    /\ proc = "none"
    /\ device = "device"
    /\ kill_server_ok = TRUE

\* time passes while a loop waits for the next line, or between two score_package calls;
\* the wall clock of now_ts() is taken not to be set back while the program runs
Tick ==
    /\ pc \in {"auto", "monitor", "scored"}
    /\ now < Epoch0 + MaxTicks * TickStep
    /\ now' = now + TickStep
    /\ UNCHANGED <<pc, cfg, events_by_pkg, state, disk, events_log, last_eval, adb_log,
                   out, inp, res, exit_code, runs>>
    /\ UNCHANGED <<proc, device, kill_server_ok>>

\* ensure_device, then the first next() of stream_logcat starts the logcat process; a
\* RuntimeError of ensure_device ends main with status 1 after its finally
BeginLoop(loop) ==
    /\ IF ensure_device_raises(device)
         THEN /\ pc' = "stopped"
              /\ proc' = "none"
              /\ exit_code' = exit_status("error")
              /\ out' = [NoOut EXCEPT !.op = "start", !.raised = TRUE,
                                      !.log = <<"[ERROR] ADB device not ready">>
                                                 \o main_finally(kill_server_ok)]
         ELSE /\ pc' = loop
              /\ proc' = "running"
              /\ exit_code' = 0
              /\ out' = [NoOut EXCEPT !.op = "start"]

\* main -> AdwScan.__init__ -> cmd_auto up to the loop
StartAuto ==
    /\ pc = "stopped"
    /\ runs < MaxRuns
    /\ \E c \in Configs : cfg' = c
    /\ state' = disk
    /\ events_by_pkg' = <<>>
    /\ last_eval' = <<>>
    /\ runs' = runs + 1
    /\ BeginLoop("auto")
    /\ UNCHANGED <<now, disk, events_log, adb_log, inp, res, device, kill_server_ok>>

\* main -> AdwScan.__init__ -> cmd_monitor up to the loop
StartMonitor ==
    /\ pc = "stopped"
    /\ runs < MaxRuns
    /\ state' = disk
    /\ events_by_pkg' = <<>>
    /\ last_eval' = <<>>
    /\ runs' = runs + 1
    /\ BeginLoop("monitor")
    /\ UNCHANGED <<cfg, now, disk, events_log, adb_log, inp, res, device, kill_server_ok>>

\* a state dict rebuilt with the new last_seen only
set_last_seen_rebuilt(st, pkg, ts) ==
    [actioned |-> <<>>, last_seen |-> (pkg :> ts) @@ st.last_seen]

\* lines 648, 740: self.state.setdefault("last_seen", {})[evt.pkg] = evt.ts
set_last_seen(st, pkg, ts) == [st EXCEPT !.last_seen = (pkg :> ts) @@ @]

\* the action apply_policy decides on for res, "skip" for a handled package
Decision(actioned, r, c) ==
    IF already_actioned(actioned, r.pkg) THEN "skip"
    ELSE policy_action(r.score, details_system_like(r), c.warn_threshold,
                       c.quar_threshold, c.remove_threshold, c.aggressive_remove)

\* one line of the stream in cmd_monitor
MonitorLine ==
    /\ pc = "monitor"
    /\ Len(events_log) < MaxEvents
    /\ \E line \in stream_lines(device) :
          LET evt == parse_displayed_line(line, now)
              st1 == set_last_seen(state, evt.pkg, evt.ts)
          IN  IF evt = NoEvent
                THEN /\ out' = [NoOut EXCEPT !.op = "monitor_line"]
                     /\ UNCHANGED <<events_by_pkg, state, disk, events_log>>
                ELSE /\ events_by_pkg' = deque_append(events_by_pkg, evt)
                     /\ state' = st1
                     /\ events_log' = append_event_log(events_log, evt)
                     /\ disk' = st1
                     /\ out' = [NoOut EXCEPT !.op = "monitor_line", !.pkg = evt.pkg]
    /\ UNCHANGED <<pc, cfg, now, last_eval, adb_log, inp, res, exit_code, runs>>
    /\ UNCHANGED <<proc, device, kill_server_ok>>

\* one line of the stream in cmd_auto
AutoLine ==
    /\ pc = "auto"
    /\ Len(events_log) < MaxEvents
    /\ \E line \in stream_lines(device) :
          LET evt == parse_displayed_line(line, now)
              events1 == deque_append(events_by_pkg, evt)
              st1 == set_last_seen(state, evt.pkg, evt.ts)
              recent == count_recent(events1, evt.pkg, RECENT_WINDOW, now)
          IN  IF evt = NoEvent
                THEN /\ out' = [NoOut EXCEPT !.op = "auto_line"]
                     /\ UNCHANGED <<pc, events_by_pkg, state, disk, events_log, last_eval,
                                    adb_log, inp, res, exit_code, proc>>
              ELSE IF ~auto_evaluates(evt.pkg, recent, now, last_eval, cfg)
                THEN /\ events_by_pkg' = events1
                     /\ state' = st1
                     /\ events_log' = append_event_log(events_log, evt)
                     /\ out' = [NoOut EXCEPT !.op = "auto_line", !.pkg = evt.pkg]
                     /\ UNCHANGED <<pc, disk, last_eval, adb_log, inp, res, exit_code, proc>>
                ELSE \E dev \in LoopDevAnswers :
                     \E r \in {score_package(evt.pkg, recent, dev, now)} :
                     \E fail \in 0..Len(action_commands(Decision(st1.actioned, r, cfg))) :
                     \E ap \in {apply_policy(st1.actioned, r, cfg.dry_run,
                                             cfg.warn_threshold, cfg.quar_threshold,
                                             cfg.remove_threshold, cfg.aggressive_remove,
                                             fail, now)} :
                     LET st2 == [st1 EXCEPT !.actioned = ap.actioned]
                     IN
                     /\ cfg.dry_run => fail = 0
                     /\ events_by_pkg' = events1
                     /\ events_log' = append_event_log(events_log, evt)
                     /\ last_eval' = (evt.pkg :> now) @@ last_eval
                     /\ inp' = [pkg |-> evt.pkg, recent |-> recent, dev |-> dev]
                     /\ res' = r
                     /\ adb_log' = adb_sent(adb_log, evt.pkg, ap.calls)
                     /\ state' = st2
                     /\ IF ap.raised
                          THEN /\ pc' = "stopped"
                               /\ exit_code' = exit_status("error")
                               /\ proc' = stream_finally(proc)
                               /\ out' = [op |-> "auto_line", pkg |-> evt.pkg,
                                          evaluated |-> TRUE, action |-> ap.action,
                                          calls |-> ap.calls,
                                          log |-> ap.log \o <<"[ERROR] timeout">>
                                                     \o main_finally(kill_server_ok),
                                          raised |-> TRUE,
                                          queries |-> score_queries(evt.pkg, dev)]
                               /\ UNCHANGED disk
                          ELSE /\ disk' = st2
                               /\ out' = [op |-> "auto_line", pkg |-> evt.pkg,
                                          evaluated |-> TRUE, action |-> ap.action,
                                          calls |-> ap.calls, log |-> ap.log,
                                          raised |-> FALSE,
                                          queries |-> score_queries(evt.pkg, dev)]
                               /\ UNCHANGED <<pc, exit_code, proc>>
    /\ UNCHANGED <<cfg, now, runs, device, kill_server_ok>>

\* the operator interrupts the running command, while the loop waits for a line (the
\* KeyboardInterrupt passes through the generator) or right after it got one (the
\* suspended generator is closed when cmd_monitor / cmd_auto is left): main exits
\* with 130 after its finally
Interrupt ==
    /\ pc \in {"auto", "monitor"}
    /\ pc' = "stopped"
    /\ exit_code' = exit_status("interrupt")
    /\ proc' = stream_finally(proc)
    /\ out' = [NoOut EXCEPT !.op = "interrupt",
                            !.log = <<"[INFO] interrupted">> \o main_finally(kill_server_ok)]
    /\ UNCHANGED <<cfg, now, events_by_pkg, state, disk, events_log, last_eval, adb_log,
                   inp, res, runs, device, kill_server_ok>>

\* the stream ends: the loop ends, the generator's finally runs, the command returns
\* and main exits with 0 after its finally
StreamEnd ==
    /\ pc \in {"auto", "monitor"}
    /\ pc' = "stopped"
    /\ exit_code' = exit_status("done")
    /\ proc' = stream_finally(proc)
    /\ out' = [NoOut EXCEPT !.op = "stream_end", !.log = main_finally(kill_server_ok)]
    /\ UNCHANGED <<cfg, now, events_by_pkg, state, disk, events_log, last_eval, adb_log,
                   inp, res, runs, device, kill_server_ok>>

\* score_package followed by apply_policy on a fresh AdwScan, outside the loop
DirectPass ==
    /\ pc = "stopped"
    /\ runs < MaxPasses
    /\ \E pkg \in Pkgs, recent \in {0, MaxRecent}, dev \in LoopDevAnswers, c \in Configs :
          \E r \in {score_package(pkg, recent, dev, now)} :
          \E fail \in 0..Len(action_commands(Decision(disk.actioned, r, c))) :
          \E ap \in {apply_policy(disk.actioned, r, c.dry_run, c.warn_threshold,
                                  c.quar_threshold, c.remove_threshold,
                                  c.aggressive_remove, fail, now)} :
          LET st2 == [disk EXCEPT !.actioned = ap.actioned]
          IN  /\ c.dry_run => fail = 0
              /\ cfg' = c
              /\ inp' = [pkg |-> pkg, recent |-> recent, dev |-> dev]
              /\ res' = r
              /\ state' = st2
              /\ disk' = IF ap.saved THEN st2 ELSE disk
              /\ adb_log' = adb_sent(adb_log, pkg, ap.calls)
              /\ out' = [op |-> "direct_pass", pkg |-> pkg, evaluated |-> TRUE,
                         action |-> ap.action, calls |-> ap.calls, log |-> ap.log,
                         raised |-> ap.raised, queries |-> score_queries(pkg, dev)]
              /\ exit_code' = IF ap.raised THEN 1 ELSE 0
    /\ runs' = runs + 1
    /\ UNCHANGED <<pc, now, events_by_pkg, events_log, last_eval>>
    /\ UNCHANGED <<proc, device, kill_server_ok>>

Next ==
    \/ Tick
    \/ StartAuto
    \/ StartMonitor
    \/ MonitorLine
    \/ AutoLine
    \/ Interrupt
    \/ StreamEnd

\* the monitor and auto commands, run one after the other on one state directory
Spec == Init /\ [][Next]_vars

\* the last command of a session, on a device in any state and with an adb server
\* that stops or fails to stop
InitMain ==
    /\ pc = "stopped"
    /\ cfg = DefaultConfig
    /\ now = Epoch0
    /\ events_by_pkg = <<>>
    /\ state = EmptyState
    /\ disk = EmptyState
    /\ events_log = <<>>
    /\ last_eval = <<>>
    /\ adb_log = [p \in Pkgs |-> [c \in Cmds |-> 0]]
    /\ out = NoOut
    /\ inp = NoInp
    /\ res = NoRes
    /\ exit_code = 0
    /\ runs = MaxRuns - 1
    /\ proc = "none"
    /\ device \in DeviceStates
    /\ kill_server_ok \in BOOLEAN

SpecMain == InitMain /\ [][Next]_vars

\* the manual commands that act on a package
ManualCmds == {"quarantine", "remove", "restore"}

\* cmd_quarantine, cmd_remove, cmd_restore: the adb commands of a manual command
manual_commands(cmd) ==
    IF cmd = "restore" THEN <<"enable", "install-existing">> ELSE action_commands(cmd)

\* a restore that drops the package from the ledger
manual_command_forgets_restored(actioned, cmd, pkg, dry_run, fail) ==
    LET cmds == manual_commands(cmd)
        raised == ~dry_run /\ fail \in 1..Len(cmds)
    IN  [actioned |-> IF cmd = "restore"
                        THEN [p \in DOMAIN actioned \ {pkg} |-> actioned[p]]
                        ELSE actioned,
         calls |-> IF dry_run THEN <<>>
                   ELSE IF raised THEN SubSeq(cmds, 1, fail) ELSE cmds,
         raised |-> raised]

\* a manual command on the ledger `actioned`: the ledger is neither consulted nor
\* changed; nothing is sent under dry_run, otherwise the commands are sent in order
\* until one times out (fail = its index, 0 when none does)
manual_command(actioned, cmd, pkg, dry_run, fail) ==
    LET cmds == manual_commands(cmd)
        raised == ~dry_run /\ fail \in 1..Len(cmds)
    IN  [actioned |-> actioned,
         calls |-> IF dry_run THEN <<>>
                   ELSE IF raised THEN SubSeq(cmds, 1, fail) ELSE cmds,
         raised |-> raised]

\* main -> AdwScan.__init__ -> ensure_device -> cmd_quarantine / cmd_remove / cmd_restore;
\* no save_state
ManualCommand ==
    /\ pc = "stopped"
    /\ runs < MaxPasses
    /\ \E cmd \in ManualCmds, pkg \in Pkgs, commit \in BOOLEAN :
       \E fail \in 0..Len(manual_commands(cmd)) :
       \E mc \in {manual_command(disk.actioned, cmd, pkg, ~commit, fail)} :
          /\ ~commit => fail = 0
          /\ cfg' = [cfg EXCEPT !.dry_run = ~commit]
          /\ state' = [disk EXCEPT !.actioned = mc.actioned]
          /\ IF ensure_device_raises(device)
               THEN /\ adb_log' = adb_log
                    /\ out' = [NoOut EXCEPT !.op = cmd, !.pkg = pkg, !.raised = TRUE,
                                            !.log = <<"[ERROR] ADB device not ready">>
                                                       \o main_finally(kill_server_ok)]
                    /\ exit_code' = exit_status("error")
               ELSE /\ adb_log' = adb_sent(adb_log, pkg, mc.calls)
                    /\ out' = [NoOut EXCEPT !.op = cmd, !.pkg = pkg, !.calls = mc.calls,
                                            !.raised = mc.raised,
                                            !.log = (IF mc.raised THEN <<"[ERROR] timeout">>
                                                                  ELSE <<>>)
                                                       \o main_finally(kill_server_ok)]
                    /\ exit_code' = IF mc.raised THEN exit_status("error")
                                                 ELSE exit_status("done")
    /\ runs' = runs + 1
    /\ UNCHANGED <<pc, now, events_by_pkg, disk, events_log, last_eval, inp, res>>
    /\ UNCHANGED <<proc, device, kill_server_ok>>

\* the ledger an automatic quarantine of PlainPkg left in state.json
HandledLedger ==
    apply_policy(<<>>, score_package(PlainPkg, MaxRecent, SystemHiddenAdsDev, Epoch0),
                 FALSE, DEFAULT_WARN_THRESHOLD, DEFAULT_QUAR_THRESHOLD,
                 DEFAULT_REMOVE_THRESHOLD, FALSE, 0, Epoch0).actioned

\* the last two commands of a session on a state directory that is empty or holds the
\* ledger of an earlier automatic action
InitManual ==
    /\ pc = "stopped"
    /\ cfg = DefaultConfig
    /\ now = Epoch0
    /\ events_by_pkg = <<>>
    /\ disk \in {EmptyState, [EmptyState EXCEPT !.actioned = HandledLedger]}
    /\ state = disk
    /\ events_log = <<>>
    /\ last_eval = <<>>
    /\ adb_log = [p \in Pkgs |-> [c \in Cmds |-> 0]]
    /\ out = NoOut
    /\ inp = NoInp
    /\ res = NoRes
    /\ exit_code = 0
    /\ runs = MaxPasses - 2
    /\ proc = "none"
    /\ device = "device"
    /\ kill_server_ok = TRUE

NextManual ==
    \/ ManualCommand
    \/ DirectPass

\* manual commands and score_package + apply_policy passes on one state directory
SpecManual == InitManual /\ [][NextManual]_vars

\* direct passes of score_package + apply_policy on one state directory
NextPass == DirectPass

SpecPass == Init /\ [][NextPass]_vars

\* one score_package call on arbitrary arguments and device answers
InitScore ==
    /\ pc = "scoring"
    /\ inp \in [pkg : Pkgs, recent : RecentCounts, dev : DevAnswers]
    /\ res = NoRes
    /\ cfg = DefaultConfig
    /\ now = Epoch0
    /\ events_by_pkg = <<>>
    /\ state = EmptyState
    /\ disk = EmptyState
    /\ events_log = <<>>
    /\ last_eval = <<>>
    /\ adb_log = [p \in Pkgs |-> [c \in Cmds |-> 0]]
    /\ out = NoOut
    /\ exit_code = 0
    /\ runs = 0
    /\ proc = "none"
    /\ device = "device"
    /\ kill_server_ok = TRUE

ScoreCall ==
    /\ pc = "scoring"
    /\ res' = score_package(inp.pkg, inp.recent, inp.dev, now)
    /\ out' = [NoOut EXCEPT !.op = "score_package", !.pkg = inp.pkg,
                            !.queries = score_queries(inp.pkg, inp.dev)]
    /\ pc' = "scored"
    /\ UNCHANGED <<cfg, now, events_by_pkg, state, disk, events_log, last_eval, adb_log,
                   inp, exit_code, runs>>
    /\ UNCHANGED <<proc, device, kill_server_ok>>

NextScore == ScoreCall

SpecScore == InitScore /\ [][NextScore]_vars

\* the device answers of the named scenarios
NamedDevAnswers == {CleanDev, OverlayDev, OverlayUsageDev, HiddenAdsDev, SystemHiddenAdsDev}

InitRescore ==
    /\ pc = "scoring"
    /\ inp \in [pkg : Pkgs, recent : RecentCounts, dev : NamedDevAnswers]
    /\ res = NoRes
    /\ cfg = DefaultConfig
    /\ now = Epoch0
    /\ events_by_pkg = <<>>
    /\ state = EmptyState
    /\ disk = EmptyState
    /\ events_log = <<>>
    /\ last_eval = <<>>
    /\ adb_log = [p \in Pkgs |-> [c \in Cmds |-> 0]]
    /\ out = NoOut
    /\ exit_code = 0
    /\ runs = 0
    /\ proc = "none"
    /\ device = "device"
    /\ kill_server_ok = TRUE

\* a second score_package call with the arguments and the device answers of the first
ScoreAgain ==
    /\ pc = "scored"
    /\ res' = score_package(inp.pkg, inp.recent, inp.dev, now)
    /\ out' = [NoOut EXCEPT !.op = "score_package", !.pkg = inp.pkg,
                            !.queries = score_queries(inp.pkg, inp.dev)]
    /\ pc' = "rescored"
    /\ UNCHANGED <<cfg, now, events_by_pkg, state, disk, events_log, last_eval, adb_log,
                   inp, exit_code, runs>>
    /\ UNCHANGED <<proc, device, kill_server_ok>>

NextRescore ==
    \/ ScoreCall
    \/ Tick
    \/ ScoreAgain

\* two score_package calls on the same evidence, the clock running in between
SpecRescore == InitRescore /\ [][NextRescore]_vars

\* the window of a package after n Displayed events, one per second, the first of them
\* DEQUE_MAXLEN - 1 seconds before Epoch0
FilledWindow(pkg, n) ==
    [i \in 1..n |-> [ts |-> Epoch0 - DEQUE_MAXLEN + i, pkg |-> pkg,
                     activity |-> ".MainActivity", raw |-> DisplayedLine(pkg)]]

\* the monitor loop after DEQUE_MAXLEN - 1 or DEQUE_MAXLEN events of one package
InitWindow ==
    /\ pc = "monitor"
    /\ \E n \in {DEQUE_MAXLEN - 1, DEQUE_MAXLEN} :
          /\ events_by_pkg = (PlainPkg :> FilledWindow(PlainPkg, n))
          /\ state = [actioned |-> <<>>,
                      last_seen |-> (PlainPkg :> FilledWindow(PlainPkg, n)[n].ts)]
    /\ disk = state
    /\ cfg = DefaultConfig
    /\ now = Epoch0
    /\ events_log = <<>>
    /\ last_eval = <<>>
    /\ adb_log = [p \in Pkgs |-> [c \in Cmds |-> 0]]
    /\ out = [NoOut EXCEPT !.op = "monitor_line", !.pkg = PlainPkg]
    /\ inp = NoInp
    /\ res = NoRes
    /\ exit_code = 0
    /\ runs = 1
    /\ proc = "running"
    /\ device = "device"
    /\ kill_server_ok = TRUE

\* the loops going on from a window that is full or one event short of it
SpecWindow == InitWindow /\ [][Next]_vars

\* the end-to-end scenario: overlay permission requested, accessibility declaration
\* text, MAIN and LAUNCHER declared but not resolvable, installer unknown
ScenarioDumpBase ==
    {PermLine("SYSTEM_ALERT_WINDOW"), A11Y_DECL_LINE, MAIN_LINE, LAUNCHER_LINE}

ScenarioDumps ==
    {ScenarioDumpBase \cup X : X \in
        {Y \in SUBSET (DumpLines \ ScenarioDumpBase) : Cardinality(Y) <= MaxDumpLines}}

ScenarioDevAnswers ==
    {Dev(i, p, l, Ok(d), a) :
        i \in {Ok(None), Failed(None)}, p \in PathAnswers,
        l \in {Unresolved, [resolve |-> "raise", probe_ok |-> TRUE]},
        d \in ScenarioDumps, a \in AppopsAnswers}

InitScenario ==
    /\ pc = "scoring"
    /\ inp \in [pkg : {PlainPkg, NamedPkg}, recent : {10}, dev : ScenarioDevAnswers]
    /\ res = NoRes
    /\ cfg \in {DefaultConfig, [DefaultConfig EXCEPT !.dry_run = FALSE]}
    /\ now = Epoch0
    /\ events_by_pkg = <<>>
    /\ state = EmptyState
    /\ disk = EmptyState
    /\ events_log = <<>>
    /\ last_eval = <<>>
    /\ adb_log = [p \in Pkgs |-> [c \in Cmds |-> 0]]
    /\ out = NoOut
    /\ exit_code = 0
    /\ runs = 0
    /\ proc = "none"
    /\ device = "device"
    /\ kill_server_ok = TRUE

\* apply_policy on the result of the score_package call, with the arguments of cfg
ApplyCall ==
    /\ pc = "scored"
    /\ \E fail \in 0..Len(action_commands(Decision(state.actioned, res, cfg))) :
       \E ap \in {apply_policy(state.actioned, res, cfg.dry_run, cfg.warn_threshold,
                               cfg.quar_threshold, cfg.remove_threshold,
                               cfg.aggressive_remove, fail, now)} :
          LET st2 == [state EXCEPT !.actioned = ap.actioned]
          IN  /\ cfg.dry_run => fail = 0
              /\ state' = st2
              /\ disk' = IF ap.saved THEN st2 ELSE disk
              /\ adb_log' = adb_sent(adb_log, res.pkg, ap.calls)
              /\ out' = [op |-> "apply_call", pkg |-> res.pkg, evaluated |-> TRUE,
                         action |-> ap.action, calls |-> ap.calls, log |-> ap.log,
                         raised |-> ap.raised, queries |-> <<>>]
              /\ exit_code' = IF ap.raised THEN 1 ELSE 0
    /\ pc' = "applied"
    /\ UNCHANGED <<cfg, now, events_by_pkg, events_log, last_eval, inp, res, runs>>
    /\ UNCHANGED <<proc, device, kill_server_ok>>

NextScenario ==
    \/ ScoreCall
    \/ ApplyCall

\* the end-to-end scenario: score_package, then apply_policy with the default thresholds
SpecScenario == InitScenario /\ [][NextScenario]_vars

(***************************************************************************)
(* Properties                                                              *)
(***************************************************************************)
Actions == {"remove", "quarantine", "force-stop"}

DryRunNames == {action_name(a, TRUE) : a \in Actions}

NoCommands == [c \in Cmds |-> 0]

\* the step is a handler that called apply_policy (for package out'.pkg)
ApplyStep ==
    /\ out'.evaluated
    /\ \/ Len(events_log') > Len(events_log)
       \/ runs' > runs

\* C1: once the ledger holds an entry for a package, an apply_policy call for that
\* package sends no remediation command, is logged as skipped and leaves the entry as
\* it was, whatever the score, the thresholds, dry_run and aggressive_remove.
C1_HandledIsSkipped ==
    [][\A p \in Pkgs :
          (ApplyStep /\ out'.pkg = p /\ p \in DOMAIN state.actioned) =>
              /\ out'.calls = <<>>
              /\ out'.action = "skip"
              /\ out'.log = <<"[SKIP]">>
              /\ adb_log' = adb_log
              /\ p \in DOMAIN state'.actioned
              /\ state'.actioned[p] = state.actioned[p]
              /\ disk'.actioned = state'.actioned]_vars

\* a handled package is evaluated again, with a higher score than the recorded one
C1_Witness ==
    /\ out.evaluated
    /\ out.action = "skip"
    /\ out.pkg \in DOMAIN state.actioned
    /\ res.pkg = out.pkg
    /\ res.score > state.actioned[out.pkg].score

\* C2: whenever apply_policy has sent a remediation command for a package, the ledger
\* holds an entry for that package when apply_policy ends, also when a later command
\* of the action times out; hence no remediation command is sent twice for a package.
C2_LedgerAtomicWithAction ==
    /\ (out.evaluated /\ out.calls # <<>>) => out.pkg \in DOMAIN state.actioned
    /\ \A p \in Pkgs : \A c \in Cmds : adb_log[p][c] <= 1

\* C3: for an unhandled package with system_like and score >= remove_threshold,
\* apply_policy sends no uninstall, performs QUARANTINE and logs the safety notice,
\* for every combination of thresholds. (The calls an adb timeout cuts short, C2, are
\* left aside here.)
C3_SafetyOverrideQuarantines ==
    (/\ out.evaluated
     /\ out.action # "skip"
     /\ ~out.raised
     /\ details_system_like(res)
     /\ res.score >= cfg.remove_threshold) =>
        /\ "uninstall" \notin Range(out.calls)
        /\ out.action = "quarantine"
        /\ out.calls = (IF cfg.dry_run THEN <<>> ELSE <<"force-stop", "disable-user">>)
        /\ out.pkg \in DOMAIN state.actioned
        /\ state.actioned[out.pkg].action = action_name("quarantine", cfg.dry_run)
        /\ "[SAFETY]" \in Range(out.log)

\* C4: for an unhandled package with score >= warn_threshold, apply_policy chooses one
\* action (REMOVE iff score >= remove_threshold, aggressive_remove and not system_like;
\* otherwise QUARANTINE iff score >= quar_threshold; otherwise force-stop only), sends
\* its commands in order and writes one ledger entry naming it with the score used.
C4_OneActionOneEntry ==
    [][(/\ ApplyStep
        /\ out'.pkg \notin DOMAIN state.actioned
        /\ res'.score >= cfg'.warn_threshold) =>
          LET remove == /\ res'.score >= cfg'.remove_threshold
                        /\ cfg'.aggressive_remove
                        /\ ~details_system_like(res')
              quarantine == ~remove /\ res'.score >= cfg'.quar_threshold
              action == IF remove THEN "remove"
                        ELSE IF quarantine THEN "quarantine" ELSE "force-stop"
              cmds == IF remove THEN <<"force-stop", "disable-user", "uninstall">>
                      ELSE IF quarantine THEN <<"force-stop", "disable-user">>
                      ELSE <<"force-stop">>
          IN  /\ out'.action = action
              /\ out'.calls = (IF cfg'.dry_run THEN <<>> ELSE cmds)
              /\ DOMAIN state'.actioned = DOMAIN state.actioned \cup {out'.pkg}
              /\ state'.actioned[out'.pkg].action
                    = (IF cfg'.dry_run THEN action \o "(dry-run)" ELSE action)
              /\ state'.actioned[out'.pkg].score = res'.score]_vars

\* C5: apply_policy on an unhandled package with score < warn_threshold sends no
\* command and leaves the ledger as it was; a later evaluation of that package with
\* score >= warn_threshold produces an action and a ledger entry.
C5_LowScoreNotTerminal ==
    [][(ApplyStep /\ out'.pkg \notin DOMAIN state.actioned) =>
          /\ res'.score < cfg'.warn_threshold =>
                /\ out'.calls = <<>>
                /\ adb_log' = adb_log
                /\ state'.actioned = state.actioned
                /\ disk'.actioned = disk.actioned
          /\ (res'.score >= cfg'.warn_threshold /\ out'.pkg \in DOMAIN last_eval) =>
                /\ out'.action \in Actions
                /\ out'.pkg \in DOMAIN state'.actioned]_vars

\* C6: with dry_run, apply_policy on an unhandled package with score >= warn_threshold
\* sends no command and writes a ledger entry named after the chosen action with the
\* dry-run suffix; the entry is terminal: a later apply_policy for the package, also
\* with dry_run off, sends no command.
C6_DryRunIsTerminal ==
    [][ApplyStep =>
          /\ (/\ cfg'.dry_run
              /\ out'.pkg \notin DOMAIN state.actioned
              /\ res'.score >= cfg'.warn_threshold) =>
                /\ out'.calls = <<>>
                /\ adb_log' = adb_log
                /\ out'.action \in Actions
                /\ out'.pkg \in DOMAIN state'.actioned
                /\ state'.actioned[out'.pkg].action = out'.action \o "(dry-run)"
                /\ disk'.actioned = state'.actioned
          /\ (/\ out'.pkg \in DOMAIN state.actioned
              /\ state.actioned[out'.pkg].action \in DryRunNames) =>
                /\ out'.calls = <<>>
                /\ adb_log' = adb_log
                /\ state'.actioned = state.actioned]_vars

\* a commit-mode apply_policy meets the entry a dry run wrote
C6_Witness ==
    /\ out.evaluated
    /\ ~cfg.dry_run
    /\ out.action = "skip"
    /\ out.pkg \in DOMAIN state.actioned
    /\ state.actioned[out.pkg].action \in DryRunNames
    /\ adb_log[out.pkg] = NoCommands

\* C7: over stream events, evaluations, apply_policy calls, state saves and restarts
\* from state.json, no package leaves the ledger and no entry's record changes, in
\* memory and on disk.
C7_LedgerMonotonic ==
    [][/\ \A p \in DOMAIN state.actioned :
             p \in DOMAIN state'.actioned /\ state'.actioned[p] = state.actioned[p]
       /\ \A p \in DOMAIN disk.actioned :
             p \in DOMAIN disk'.actioned /\ disk'.actioned[p] = disk.actioned[p]]_vars

\* the monitor loop saves the state after an automatic action filled the ledger
C7_Witness ==
    /\ pc = "monitor"
    /\ out.op = "monitor_line"
    /\ out.pkg # ""
    /\ DOMAIN state.actioned # {}
    /\ disk = state

\* C8: a package that matches the allowlist is never actioned: for any recent_count and
\* any thresholds, no remediation command is sent for it and no ledger entry is written
\* for it, by the auto loop or by a score_package + apply_policy pass.
C8_AllowlistedNeverActioned ==
    \A p \in Pkgs :
        is_allowlisted(p) =>
            /\ p \notin DOMAIN state.actioned
            /\ p \notin DOMAIN disk.actioned
            /\ adb_log[p] = NoCommands

\* C9: cmd_auto scores an event's package iff the package is not allowlisted, its
\* recent count is at least the minimum, and cool_down_sec has elapsed since its
\* previous evaluation or it was never evaluated; two evaluations of a package in one
\* loop are at least cool_down_sec apart.
C9_EvaluationGate ==
    [][(pc = "auto" /\ Len(events_log') > Len(events_log)) =>
          LET p == out'.pkg
              recent == count_recent(events_by_pkg', p, RECENT_WINDOW, now)
          IN  /\ out'.evaluated <=>
                    /\ ~is_allowlisted(p)
                    /\ recent >= cfg.min_count_for_inspect
                    /\ \/ p \notin DOMAIN last_eval
                       \/ now - last_eval[p] >= cfg.cool_down_sec
              /\ (out'.evaluated /\ p \in DOMAIN last_eval) =>
                    now - last_eval[p] >= cfg.cool_down_sec]_vars

\* C10: score_package returns 0 <= score <= 180 for every combination of its inputs,
\* and the location rule's subtraction never leaves the running score below 0.
C10_ScoreInRange ==
    pc = "scored" =>
        /\ res.score >= 0
        /\ res.score <= 180
        /\ ~is_allowlisted(inp.pkg) =>
              score_trace(inp.pkg, inp.recent, inp.dev, now).s5 >= 0

\* a system-area package whose running score was below 10 at the location rule and
\* whose sum exceeds the clip
C10_Witness ==
    /\ pc = "scored"
    /\ details_system_like(res)
    /\ score_trace(inp.pkg, inp.recent, inp.dev, now).s4 < 10
    /\ score_trace(inp.pkg, inp.recent, inp.dev, now).s5 = 0
    /\ score_trace(inp.pkg, inp.recent, inp.dev, now).raw > SCORE_CAP
    /\ res.score = SCORE_CAP

\* C11: for an allowlisted package score_package returns score 0 and reasons
\* ["allowlisted"], whatever the recent count and the device's answers; no later rule
\* adds points or reasons.
C11_AllowlistedScoresZero ==
    (pc = "scored" /\ is_allowlisted(inp.pkg)) =>
        /\ res.pkg = inp.pkg
        /\ res.score = 0
        /\ res.reasons = <<"allowlisted">>

\* an allowlisted package scored with the highest recent count and every signal present
C11_Witness ==
    /\ pc = "scored"
    /\ inp.pkg = AllowPkg
    /\ is_allowlisted(inp.pkg)
    /\ inp.recent = MaxRecent
    /\ inp.dev.installer = Ok("com.evil.store")
    /\ inp.dev.dump = Ok(DumpLines)
    /\ inp.dev.appops = Ok(AppopsLines)
    /\ res.reasons = <<"allowlisted">>

\* C12: two score_package calls for the same package with the same device answers and
\* the same recent count, made at any two points in time, return results that are equal
\* field for field (pkg, score, reasons, details).
C12_ScoringDeterministic ==
    [][(pc = "scored" /\ pc' = "rescored") => res' = res]_vars

\* C13 as stated: in the end-to-end scenario (not allowlisted, recent count 10, overlay
\* permission requested, accessibility declaration text in the dump, installer unknown,
\* launcher_present false) score_package returns a score >= 155, and apply_policy with
\* the default thresholds and aggressive_remove off takes QUARANTINE.
C13_ScenarioScoreAtLeast155 ==
    /\ pc \in {"scored", "applied"} => res.score >= 155
    /\ pc = "applied" => out.action = "quarantine"

\* C13, amended: in that scenario score_package returns a score >= 140, and >= 150 when
\* no install path lies in a system tree; apply_policy with the default thresholds and
\* aggressive_remove off takes the QUARANTINE tier: its commands are force-stop then
\* disable-user, never uninstall.
C13_ScenarioQuarantines ==
    /\ pc \in {"scored", "applied"} =>
          /\ res.details.launcher_present = "False"
          /\ res.score >= 140
          /\ ~details_system_like(res) => res.score >= 150
    /\ pc = "applied" =>
          /\ out.action = "quarantine"
          /\ "uninstall" \notin Range(out.calls)
          /\ \E n \in 0..2 : out.calls = SubSeq(<<"force-stop", "disable-user">>, 1, n)

\* the scenario scored below 155 and quarantined on the device
C13_Witness ==
    /\ pc = "applied"
    /\ inp.recent = 10
    /\ res.score = 140
    /\ ~cfg.dry_run
    /\ out.action = "quarantine"
    /\ out.calls = <<"force-stop", "disable-user">>
    /\ out.pkg \in DOMAIN disk.actioned

\* C14: a package's window holds at most 500 events in arrival order; recording an
\* event into a full window drops exactly the oldest one, and count_recent never counts
\* a dropped event, however large the window in seconds.
C14_WindowBoundedFifo ==
    [][(pc \in {"monitor", "auto"} /\ Len(events_log') = Len(events_log) + 1) =>
          LET p == out'.pkg
              dq == Get(events_by_pkg, p, <<>>)
              dq2 == events_by_pkg'[p]
              evt == dq2[Len(dq2)]
          IN  /\ Len(dq2) <= 500
              /\ evt.ts = now /\ evt.pkg = p
              /\ dq2 = (IF Len(dq) = 500 THEN Tail(dq) ELSE dq) \o <<evt>>
              /\ \A q \in DOMAIN events_by_pkg \ {p} :
                    events_by_pkg'[q] = events_by_pkg[q]
              /\ count_recent(events_by_pkg', p, now, now) = Len(dq2)]_vars

\* the window is full, its oldest event was dropped and the newest one is at the end
C14_Witness ==
    /\ pc = "monitor"
    /\ PlainPkg \in DOMAIN events_by_pkg
    /\ Len(events_by_pkg[PlainPkg]) = DEQUE_MAXLEN
    /\ Len(events_log) >= 1
    /\ events_by_pkg[PlainPkg][1].ts > Epoch0 - DEQUE_MAXLEN + 1
    /\ events_by_pkg[PlainPkg][DEQUE_MAXLEN].ts > Epoch0
    /\ count_recent(events_by_pkg, PlainPkg, now, now) = DEQUE_MAXLEN

\* C15: in every reachable state of the monitor loop (and of the auto loop) the events
\* of each package's window are in non-decreasing timestamp order, each stamped with the
\* clock's reading when its line was parsed, so none lies in the future.
C15_WindowTimestampsOrdered ==
    \A p \in DOMAIN events_by_pkg :
        LET dq == events_by_pkg[p]
        IN  /\ \A i \in 1..Len(dq) : dq[i].pkg = p /\ dq[i].ts <= now
            /\ \A i \in 1..(Len(dq) - 1) : dq[i].ts <= dq[i + 1].ts

\* the monitor loop recorded two events of one package at different times
C15_Witness ==
    /\ pc = "monitor"
    /\ out.op = "monitor_line"
    /\ \E p \in DOMAIN events_by_pkg :
          /\ Len(events_by_pkg[p]) >= 2
          /\ events_by_pkg[p][1].ts < events_by_pkg[p][2].ts
          /\ events_by_pkg[p][2].ts = now

\* the diagnostic reasons of score_package's five try/except blocks
DiagnosticReasons ==
    {"installer query failed", "path query failed", "launcher probe failed",
     "dumpsys failed", "appops query failed"}

\* both adb calls of the launcher probe raised
ProbeFailed(dev) == dev.resolve = "raise" /\ ~dev.probe_ok

\* C16: whatever subset of the five sub-queries (installer, paths, launcher probe,
\* package dump, app-operation dump) fails, score_package returns a result, the field of
\* each failed sub-query is its unknown value, one diagnostic reason is appended for each
\* failed sub-query, and the values obtained from the other sub-queries are unchanged.
C16_PartialFailureTolerated ==
    (pc = "scored" /\ ~is_allowlisted(inp.pkg)) =>
        LET d == inp.dev
            det == res.details
            failed == {q \in {"installer", "paths", "dump", "appops"} : ~d[q].ok}
                         \cup (IF ProbeFailed(d) THEN {"launcher"} ELSE {})
            diagnostics == SelectSeq(res.reasons, LAMBDA r : r \in DiagnosticReasons)
        IN  /\ res.pkg = inp.pkg
            /\ det.installer = (IF d.installer.ok THEN d.installer.val ELSE None)
            /\ det.paths = (IF d.paths.ok THEN d.paths.val ELSE <<>>)
            /\ ProbeFailed(d) => det.launcher_present = None
            /\ det.requested_permissions
                  = (IF d.dump.ok /\ d.dump.val # {}
                       THEN parse_requested_permissions(d.dump.val) ELSE <<>>)
            /\ ~d.dump.ok => "behavior_text_signals" \notin DOMAIN det
            /\ Range(det.appops_allow_signals)
                  = (IF d.appops.ok
                       THEN {APPOPS_SIGNALS[i].op : i \in
                               {j \in 1..Len(APPOPS_SIGNALS) :
                                   appops_allowed(d.appops.val, APPOPS_SIGNALS[j].op)}}
                       ELSE {})
            /\ Len(diagnostics) = Cardinality(failed)

\* C17: the launcher probe returns true iff the resolve-activity query succeeds and
\* names the package; false iff it did not and the probe's dump text holds both the MAIN
\* action and the LAUNCHER category; unknown in every other case, also when the probe's
\* own commands fail. False and unknown reach the composite rules as distinct values:
\* the launcher-absent rule fires only on false, the launcher-unknown rule only on
\* unknown.
C17_LauncherTriState ==
    (pc = "scored" /\ ~is_allowlisted(inp.pkg)) =>
        LET d == inp.dev
            lp == res.details.launcher_present
            resolved == d.resolve = "named"
            declared == /\ d.probe_ok
                        /\ MAIN_LINE \in d.dump.val
                        /\ LAUNCHER_LINE \in d.dump.val
        IN  /\ lp \in {"True", "False", None}
            /\ lp = "True" <=> resolved
            /\ lp = "False" <=> (~resolved /\ declared)
            /\ lp = None <=> (~resolved /\ ~declared)
            /\ ProbeFailed(d) => lp = None
            /\ "no launcher + front display (HiddenAds)" \in Range(res.reasons)
                  <=> (lp = "False" /\ inp.recent >= 3)
            /\ "launcher unknown + front display high" \in Range(res.reasons)
                  <=> (lp = None /\ inp.recent >= 5)

\* the resolve-activity call raised, the dump declares MAIN and LAUNCHER: the probe
\* answers false and the launcher-absent rule fires, not the launcher-unknown rule
C17_Witness ==
    /\ pc = "scored"
    /\ ~is_allowlisted(inp.pkg)
    /\ inp.dev.resolve = "raise"
    /\ inp.recent >= 5
    /\ res.details.launcher_present = "False"
    /\ "no launcher + front display (HiddenAds)" \in Range(res.reasons)
    /\ "launcher unknown + front display high" \notin Range(res.reasons)

\* C18: however the monitor / auto loop ends (stream end, fatal error, operator
\* interrupt while waiting for or processing a line), the logcat process has been killed
\* before the program exits: no exit state has the stream producer still running, and
\* every exit of a loop that had started the process leaves it killed.
C18_StreamKilledOnExit ==
    pc = "stopped" =>
        /\ proc # "running"
        /\ (out.op \in {"interrupt", "stream_end", "auto_line"} => proc = "killed")

\* the auto loop left by the timeout of a remediation command, the process killed
C18_Witness ==
    /\ pc = "stopped"
    /\ out.op = "auto_line"
    /\ out.raised
    /\ proc = "killed"

\* C19: on an operator interrupt main runs its cleanup (the stream process is killed,
\* adb kill-server is tried) and exits with 130, while every other failure exits with 1;
\* a failing cleanup is reported as a warning and the exit status stays 130.
C19_InterruptExits130 ==
    /\ out.op = "interrupt" =>
          /\ pc = "stopped"
          /\ exit_code = 130
          /\ proc = "killed"
          /\ out.log = <<"[INFO] interrupted">> \o
                 (IF kill_server_ok THEN <<"[INFO] adb server stopped">>
                                    ELSE <<"[WARN] adb server stop failed">>)
    /\ (pc = "stopped" /\ out.raised) => exit_code = 1
    /\ (pc = "stopped" /\ exit_code = 130) => out.op = "interrupt"

\* an interrupted command whose adb kill-server failed
C19_Witness ==
    /\ out.op = "interrupt"
    /\ ~kill_server_ok
    /\ exit_code = 130
    /\ out.log[Len(out.log)] = "[WARN] adb server stop failed"

\* C20: when adb reports no usable connection (no device found, offline, unauthorized),
\* a started monitor / auto command fails before it starts the stream or sends any
\* command, and the process exits with a non-zero status.
C20_UnusableDeviceFailsBeforeStream ==
    (out.op # "" /\ ~UsableDevice(device)) =>
        /\ pc = "stopped"
        /\ exit_code # 0
        /\ proc = "none"

\* C21: in the monitor and the auto loop, once the processing of a parsed event has
\* finished, state.json equals the in-memory state (ledger and last-seen times, the
\* time of the event just processed included), also for an event whose package is
\* allowlisted, below the minimum count or inside its cooldown.
C21_DiskEqualsMemoryAfterEvent ==
    (out.op \in {"monitor_line", "auto_line"} /\ out.pkg # "" /\ ~out.raised) =>
        disk = state

\* C22: the event log is append-only with one record per event: a line that parses to
\* an event (allowlisted packages included) appends exactly one record, in arrival
\* order, and updates the package's window and last-seen time; a line that does not
\* match the Displayed pattern leaves the window, the last-seen map, the event log, the
\* ledger and the cooldown map unchanged; no step removes or rewrites a record.
C22_EventLogAppendOnly ==
    [][/\ Len(events_log') \in {Len(events_log), Len(events_log) + 1}
       /\ SubSeq(events_log', 1, Len(events_log)) = events_log
       /\ (/\ pc \in {"monitor", "auto"}
           /\ \/ events_by_pkg' # events_by_pkg
              \/ state'.last_seen # state.last_seen
              \/ events_log' # events_log) =>
             LET rec == events_log'[Len(events_log')]
                 dq == events_by_pkg'[out'.pkg]
             IN  /\ Len(events_log') = Len(events_log) + 1
                 /\ rec.pkg = out'.pkg
                 /\ rec.ts = now
                 /\ rec.time = ts_iso(now)
                 /\ dq[Len(dq)] = [ts |-> rec.ts, pkg |-> rec.pkg,
                                   activity |-> rec.activity, raw |-> rec.raw]
                 /\ state'.last_seen[out'.pkg] = rec.ts
       /\ (out'.op \in {"monitor_line", "auto_line"} /\ out'.pkg = "") =>
             UNCHANGED <<events_by_pkg, state, disk, events_log, last_eval>>]_vars

\* two events logged in arrival order, the first of an allowlisted package
C22_Witness ==
    /\ out.op \in {"monitor_line", "auto_line"}
    /\ Len(events_log) = 2
    /\ is_allowlisted(events_log[1].pkg)
    /\ events_log[2].pkg = out.pkg
    /\ events_log[1].ts < events_log[2].ts
    /\ events_by_pkg[events_log[1].pkg][1].ts = events_log[1].ts
    /\ state.last_seen[out.pkg] = events_log[2].ts

\* C23: for the recorded events and the query time of any reachable state,
\* count_recent(pkg, w) does not grow when w shrinks (w1 <= w2 implies
\* count_recent(pkg, w1) <= count_recent(pkg, w2)), and it is the number of the package's
\* retained events whose age is at most w.
C23_RecentCountMonotone ==
    \A p \in Pkgs :
        LET dq == Get(events_by_pkg, p, <<>>)
            aged(w) == SelectSeq(dq, LAMBDA e : now - e.ts <= w)
        IN  /\ \A w \in QueryWindows :
                  count_recent(events_by_pkg, p, w, now) = Len(aged(w))
            /\ \A w1, w2 \in QueryWindows :
                  w1 <= w2 => count_recent(events_by_pkg, p, w1, now)
                                  <= count_recent(events_by_pkg, p, w2, now)

\* a package with one event inside the shortest window and an older one outside it
C23_Witness ==
    /\ pc \in {"monitor", "auto"}
    /\ count_recent(events_by_pkg, PlainPkg, 0, now) = 1
    /\ count_recent(events_by_pkg, PlainPkg, TickStep, now) = 2

A11yPermReason == "permission signal: BIND_ACCESSIBILITY_SERVICE (+35)"
A11yDeclReason == "AccessibilityService declaration (+15)"

\* C24: accessibility evidence is never counted twice: for every dump text the +15
\* declaration bonus is added only when the declaration signature is in the text and
\* BIND_ACCESSIBILITY_SERVICE is not among the captured permissions, so the +35
\* permission weight and the +15 bonus are never both added in one scoring pass.
C24_A11yNotDoubleCounted ==
    pc = "scored" =>
        LET hasPerm == A11yPermReason \in Range(res.reasons)
            hasDecl == A11yDeclReason \in Range(res.reasons)
            txt == IF inp.dev.dump.ok THEN inp.dev.dump.val ELSE {}
        IN  /\ ~(hasPerm /\ hasDecl)
            /\ hasDecl =>
                  /\ \E line \in txt : LineContains(line, "AccessibilityService")
                  /\ "BIND_ACCESSIBILITY_SERVICE" \notin Range(res.details.requested_permissions)
                  /\ \A line \in txt : ~LineContains(line, "BIND_ACCESSIBILITY_SERVICE")
            /\ Cardinality({i \in 1..Len(res.reasons) :
                               res.reasons[i] \in {A11yPermReason, A11yDeclReason}}) <= 1

\* a dump with the declaration signature and the permission token: only the +35 is added
C24_Witness ==
    /\ pc = "scored"
    /\ inp.dev.dump.ok
    /\ \E line \in inp.dev.dump.val : LineContains(line, "AccessibilityService")
    /\ A11yPermReason \in Range(res.reasons)
    /\ A11yDeclReason \notin Range(res.reasons)

\* C25: the +15 composite bonus for high frequency with overlay and installer is added
\* exactly when recent_count >= 5, overlay evidence holds and the installer is untrusted
\* in the sense of the installer rule (a known installer outside the trusted list): not
\* for a trusted installer, and not for the unknown installer that the installer rule
\* scores +10.
C25_CompositeUsesInstallerClass ==
    (pc = "scored" /\ ~is_allowlisted(res.pkg)) =>
        LET installer == res.details.installer
            knownUntrusted == installer # None /\ installer \notin trusted_installers
        IN  /\ ("high frequency + non-standard installer + overlay" \in Range(res.reasons))
                <=> (/\ inp.recent >= 5
                     /\ res.details.composite_flags.has_overlay_perm
                     /\ knownUntrusted)
            /\ knownUntrusted <=>
                  ("non-standard installer: " \o installer) \in Range(res.reasons)
            /\ (installer = None) <=> "installer unknown" \in Range(res.reasons)

\* C27: scoring an allowlisted package issues no command to the device: score_package
\* returns before the installer, path, launcher, package-dump and app-operation
\* queries, so its result is the same whatever the device answers and whether or not
\* the queries would fail.
C27_AllowlistedScoringNoQueries ==
    (pc = "scored" /\ is_allowlisted(inp.pkg)) =>
        /\ out.queries = <<>>
        /\ res = [pkg |-> inp.pkg, score |-> 0, reasons |-> <<"allowlisted">>,
                  details |-> [pkg |-> inp.pkg, time |-> ts_iso(now), allowlisted |-> TRUE,
                               recent_count_10m |-> inp.recent]]

\* an allowlisted package scored while every query of the device would fail
C27_Witness ==
    /\ pc = "scored"
    /\ out.op = "score_package"
    /\ is_allowlisted(inp.pkg)
    /\ ~inp.dev.installer.ok
    /\ ~inp.dev.paths.ok
    /\ ~inp.dev.dump.ok
    /\ ~inp.dev.appops.ok
    /\ inp.dev.resolve = "raise"
    /\ out.queries = <<>>
    /\ res.score = 0

\* C26: the manual commands quarantine, remove and restore neither consult nor change
\* the ledger: a committed command sends its adb commands whether or not the package is
\* in the ledger, and leaves state.json and the loaded ledger as they were; after a
\* restore of a package that an automatic action had handled the entry is still there,
\* so a later score_package + apply_policy pass skips the package and sends nothing.
C26_ManualCommandsLeaveLedger ==
    [][/\ (runs' = runs + 1 /\ out'.op \in ManualCmds) =>
             /\ disk' = disk
             /\ state'.actioned = disk.actioned
             /\ (~cfg'.dry_run /\ ~out'.raised) =>
                   out'.calls = CASE out'.op = "quarantine" -> <<"force-stop", "disable-user">>
                                  [] out'.op = "remove" ->
                                        <<"force-stop", "disable-user", "uninstall">>
                                  [] OTHER -> <<"enable", "install-existing">>
             /\ cfg'.dry_run => out'.calls = <<>>
       /\ (/\ runs' = runs + 1
           /\ out'.op = "direct_pass"
           /\ out.op = "restore"
           /\ out'.pkg = out.pkg
           /\ out.pkg \in DOMAIN disk.actioned) =>
             /\ out'.action = "skip"
             /\ out'.calls = <<>>
             /\ adb_log' = adb_log
             /\ disk'.actioned = disk.actioned]_vars

\* a committed restore of the package an automatic quarantine had handled: both adb
\* commands sent, the entry still in the loaded ledger and in state.json
C26_Witness ==
    /\ out.op = "restore"
    /\ out.pkg = PlainPkg
    /\ ~cfg.dry_run
    /\ out.calls = <<"enable", "install-existing">>
    /\ PlainPkg \in DOMAIN disk.actioned
    /\ disk.actioned[PlainPkg].action = "quarantine"
    /\ state.actioned = disk.actioned

====
